---- MODULE Spec2Model ----
(***************************************************************************)
(* Model of the diffractive-optics pipeline of Delta-Prox:                 *)
(*   dprox/contrib/optic/doe_model.py  (HeightMap, RGBCollimator,          *)
(*                                      build_baseline_profile)            *)
(*   examples/computional_optics/e2e_optics.py (build_model.step_fn, train)*)
(*   tests/problem/test_deraining.py   (test)                              *)
(*                                                                         *)
(* Numbers.  Tensor entries are modelled exactly: a value is               *)
(*   <<"fin", n, d>>  the rational n/d (d > 0, lowest terms),              *)
(*   <<"inf", s, 1>>  the IEEE infinity of sign s,                         *)
(*   <<"nan", 0, 1>>  the IEEE NaN.                                        *)
(* Rounding of float32 is not modelled.  Lengths are in micrometres.       *)
(* Phases are measured in cycles, so the source's 2*pi is the number 1     *)
(* (TwoPi) and exp(1j*phi) is the point of the unit circle named by        *)
(* phi mod 1.                                                              *)
(***************************************************************************)
EXTENDS Integers, Sequences, FiniteSets, TLC

VARIABLES
    cfg,              \* DOEModelConfig handed to build_doe_model
    pc,               \* where the program is
    height_map_sqrt,  \* HeightMap.height_map_sqrt (free-form parameter)
    zernike_coeffs,   \* HeightMap.zernike_coeffs (Zernike parameters)
    rhos,             \* rgb_collim_model.rhos / ckpt['rhos']
    sigmas,           \* rgb_collim_model.sigmas
    gstep,            \* number of optimizer steps taken
    ret,              \* the last call and what it returned or raised
    solver,           \* the running solver.solve call
    buffers           \* the buffers _init_setup registers: xx, yy, aperture, input_field

vars == <<cfg, pc, height_map_sqrt, zernike_coeffs, rhos, sigmas, gstep, ret, solver, buffers>>

(***************************************************************************)
(* Bounds of the model.                                                    *)
(***************************************************************************)
MaxRes == 3        \* largest wave_resolution (MaxRes x MaxRes grid)
MaxSteps == 1      \* optimizer steps explored
MaxWraps == 2      \* whole cycles added to or taken from a phase

(***************************************************************************)
(* Exact arithmetic with IEEE infinities and NaN.                          *)
(***************************************************************************)
Abs(x) == IF x < 0 THEN -x ELSE x

RECURSIVE GCD(_, _)
GCD(a, b) == IF b = 0 THEN a ELSE GCD(b, a % b)

Fin(n, d) ==
    LET s == IF d < 0 THEN -1 ELSE 1
        g == GCD(Abs(n), Abs(d))
    IN  <<"fin", (s * n) \div g, (s * d) \div g>>

NaN == <<"nan", 0, 1>>
Inf(s) == <<"inf", s, 1>>
Zero == Fin(0, 1)
One == Fin(1, 1)

IsFin(x) == x[1] = "fin"
IsNaN(x) == x[1] = "nan"
IsInf(x) == x[1] = "inf"
Sign(x) == IF x[2] > 0 THEN 1 ELSE IF x[2] < 0 THEN -1 ELSE 0

FNeg(x) == IF IsNaN(x) THEN NaN ELSE <<x[1], -x[2], x[3]>>

FMul(x, y) ==
    IF IsNaN(x) \/ IsNaN(y) THEN NaN
    ELSE IF IsInf(x) \/ IsInf(y)
         THEN IF Sign(x) * Sign(y) = 0 THEN NaN ELSE Inf(Sign(x) * Sign(y))
    ELSE LET g1 == GCD(Abs(x[2]), y[3])
             g2 == GCD(Abs(y[2]), x[3])
         IN  Fin((x[2] \div g1) * (y[2] \div g2), (x[3] \div g2) * (y[3] \div g1))

\* IEEE division: x/0 is an infinity, 0/0 and inf/inf are NaN.
FDiv(x, y) ==
    IF IsNaN(x) \/ IsNaN(y) THEN NaN
    ELSE IF IsInf(y) THEN (IF IsInf(x) THEN NaN ELSE Zero)
    ELSE IF IsInf(x) THEN Inf(Sign(x) * (IF Sign(y) < 0 THEN -1 ELSE 1))
    ELSE IF y[2] = 0 THEN (IF x[2] = 0 THEN NaN ELSE Inf(Sign(x)))
    ELSE FMul(x, Fin(y[3], y[2]))

FAdd(x, y) ==
    IF IsNaN(x) \/ IsNaN(y) THEN NaN
    ELSE IF IsInf(x) /\ IsInf(y) THEN (IF Sign(x) = Sign(y) THEN x ELSE NaN)
    ELSE IF IsInf(x) THEN x
    ELSE IF IsInf(y) THEN y
    ELSE LET g == GCD(x[3], y[3])
         IN  Fin(x[2] * (y[3] \div g) + y[2] * (x[3] \div g), (x[3] \div g) * y[3])

\* x < y; any comparison with NaN is false.
FLess(x, y) ==
    IF IsNaN(x) \/ IsNaN(y) THEN FALSE
    ELSE IF IsInf(x) THEN Sign(x) < 0 /\ ~(IsInf(y) /\ Sign(y) < 0)
    ELSE IF IsInf(y) THEN Sign(y) > 0
    ELSE x[2] * y[3] < y[2] * x[3]

\* x >= 0; false for NaN.
FGeqZero(x) == ~IsNaN(x) /\ Sign(x) >= 0

\* torch.remainder(x, m) for a finite m > 0: the result takes the sign of m.
FRem(x, m) ==
    IF ~IsFin(x) THEN NaN
    ELSE LET q == FDiv(x, m)
             fl == q[2] \div q[3]
         IN  FAdd(x, FNeg(FMul(m, Fin(fl, 1))))

RECURSIVE FSumSeq(_)
FSumSeq(s) == IF s = <<>> THEN Zero ELSE FAdd(Head(s), FSumSeq(Tail(s)))

(***************************************************************************)
(* A real of the form sgn * sqrt(sq), sq a value above: the parameter      *)
(* height_map_sqrt holds square roots, which are not rational.             *)
(***************************************************************************)
Root(sgn, sq) == <<sgn, sq>>

\* x ** 0.5
FSqrt(x) ==
    IF IsNaN(x) THEN Root(1, NaN)
    ELSE IF Sign(x) < 0 THEN Root(1, NaN)
    ELSE Root(Sign(x), x)

\* torch.square
FSquare(r) == r[2]

(***************************************************************************)
(* Program constants (DOEModelConfig, doe_model.py lines 178-197).         *)
(***************************************************************************)
TwoPi == One                                   \* 2 * torch.pi, in cycles
DefaultWaveLengths == <<Fin(46, 100), Fin(55, 100), Fin(64, 100)>>
DefaultRefractiveIdcs == <<Fin(14648, 10000), Fin(14599, 10000), Fin(14568, 10000)>>
DefaultSensorDistance == 15000                 \* 15e-3 m
SampleInterval == 2                            \* 2e-6 m
NumChannels == 3                               \* height_map_shape = (1, 3, H, W)

\* Sensor distances tried: negative, zero, one micrometre (a lens whose
\* phase wraps within the small grid) and the default.
SensorDistances == {-1, 0, 1, DefaultSensorDistance}

\* [none |-> TRUE] is zernike_volume = None, else a volume of shape (K, M, M).
NoZernike == [none |-> TRUE, K |-> 0, M |-> 0]
\* initial_zernike_coefs: a dict from index to value.
InitialZernikeCoefs ==
    { [k \in {0} |-> Fin(-1, 4)],
      [k \in {0, 1} |-> IF k = 0 THEN Fin(1, 2) ELSE Fin(3, 2)] }

\* Lengths <<nw, nr>> of the wavelength and refractive-index tuples tried.
ShapePairs == {<<3, 3>>, <<3, 2>>, <<3, 1>>, <<1, 3>>}

\* The configurations constructed: DOEModelConfig on a small grid, with the
\* default sensor distance and tuples, free-form or with a Zernike basis.
\* patch_size divides wave_res (area downsampling by a whole factor).
Configs ==
    { [wave_res |-> N, patch_size |-> P, sensor_distance |-> DefaultSensorDistance,
       nw |-> NumChannels, nr |-> NumChannels,
       zernike_volume |-> NoZernike, initial_zernike_coefs |-> [k \in {} |-> Zero]] :
         N \in 1..MaxRes, P \in 1..MaxRes } \cup
    { [wave_res |-> z.M, patch_size |-> P, sensor_distance |-> DefaultSensorDistance,
       nw |-> NumChannels, nr |-> NumChannels,
       zernike_volume |-> [none |-> FALSE, K |-> z.K, M |-> z.M + z.off],
       initial_zernike_coefs |-> ic] :
         z \in [K : 1..2, M : 2..MaxRes, off : 0..1], P \in 1..MaxRes,
         ic \in InitialZernikeCoefs }

ValidConfig(c) == c.wave_res % c.patch_size = 0

\* The tuples a configuration holds: the first nw wavelengths and the first
\* nr refractive indices of the defaults.
wave_lengths(c) == SubSeq(DefaultWaveLengths, 1, c.nw)
refractive_idcs(c) == SubSeq(DefaultRefractiveIdcs, 1, c.nr)

(***************************************************************************)
(* Grid and aperture (RGBCollimator._init_setup).                          *)
(***************************************************************************)
Pix(N) == (0..(N - 1)) \X (0..(N - 1))

\* get_coordinate(H, W, dx, dy): a grid centred on the optical axis,
\* coordinate (2*i - (N - 1)) / 2 * dx at index i.
Coord(N, i) == FMul(Fin(2 * i - (N - 1), 2), Fin(SampleInterval, 1))
xx(c, p) == Coord(c.wave_res, p[2])
yy(c, p) == Coord(c.wave_res, p[1])

\* xx**2 + yy**2 at pixel p
RadiusSq(c, p) == FAdd(FMul(xx(c, p), xx(c, p)), FMul(yy(c, p), yy(c, p)))

\* xx.max()
MaxOf(S) == CHOOSE m \in S : \A v \in S : ~FLess(m, v)

\* _get_circular_aperture: r < xx.max(), compared on the squares when
\* xx.max() >= 0 (r >= 0 always).
get_circular_aperture(c) ==
    LET max_val == MaxOf({xx(c, p) : p \in Pix(c.wave_res)})
        max_sq == FMul(max_val, max_val)
        pos == FGeqZero(max_val)
    IN  [p \in Pix(c.wave_res) |-> IF pos /\ FLess(RadiusSq(c, p), max_sq) THEN 1 ELSE 0]

\* No model built yet: nothing registered.
NoBuffers == [xx |-> <<>>, yy |-> <<>>, aperture |-> <<>>, input_field |-> <<>>]

\* RGBCollimator._init_setup (lines 138-148): input_field = ones of shape
\* (1, len(wave_lengths), H, W), the grid and the aperture.
init_setup(c) ==
    [xx |-> [p \in Pix(c.wave_res) |-> xx(c, p)],
     yy |-> [p \in Pix(c.wave_res) |-> yy(c, p)],
     aperture |-> get_circular_aperture(c),
     input_field |-> [i \in 1..c.nw |-> [p \in Pix(c.wave_res) |-> One]]]

(***************************************************************************)
(* HeightMap.                                                              *)
(***************************************************************************)
\* delta_N and wave_nos as flat per-channel lists (the buffers of lines 12-17).
delta_N(c) == [i \in 1..c.nr |-> FAdd(refractive_idcs(c)[i], Fin(-1, 1))]
wave_nos(c) == [i \in 1..c.nw |-> FDiv(TwoPi, wave_lengths(c)[i])]

\* Whether wave_lengths[idx] and delta_N.view(-1)[idx] exist.
IndexOK(c, idx) == idx + 1 \in 1..c.nw /\ idx + 1 \in 1..c.nr

\* torch.fmod(x, m): the remainder that takes the sign of x.
FFmod(x, m) ==
    IF ~IsFin(x) THEN NaN
    ELSE IF Sign(x) < 0 THEN FNeg(FRem(FNeg(x), m)) ELSE FRem(x, m)

\* phase_to_height_map with the phase reduced by fmod instead of %.
phase_to_height_map_fmod(c, phi, wave_length_idx) ==
    LET wave_length == wave_lengths(c)[wave_length_idx + 1]
        delta_n == delta_N(c)[wave_length_idx + 1]
        k == FDiv(TwoPi, wave_length)
        wrapped == FFmod(phi, TwoPi)
    IN  FDiv(FDiv(wrapped, k), delta_n)

\* phase_to_height_map on one entry of phi (lines 81-86).
phase_to_height_map(c, phi, wave_length_idx) ==
    LET wave_length == wave_lengths(c)[wave_length_idx + 1]
        delta_n == delta_N(c)[wave_length_idx + 1]
        k == FDiv(TwoPi, wave_length)
        wrapped == FRem(phi, TwoPi)
    IN  FDiv(FDiv(wrapped, k), delta_n)

\* The ideal Fresnel-lens phase at wavelength idx, before wrapping
\* (lines 41-43 and 234-236).
FresnelPhase(c, idx, p) ==
    LET k == FDiv(TwoPi, wave_lengths(c)[idx + 1])
    IN  FMul(FNeg(k), FDiv(RadiusSq(c, p), Fin(2 * c.sensor_distance, 1)))

\* _fresnel_phase_init (lines 41-46).
fresnel_phase_init(c, idx) ==
    [p \in Pix(c.wave_res) |->
        LET fresnel_phase == FRem(FresnelPhase(c, idx, p), TwoPi)
        IN  FSqrt(phase_to_height_map(c, fresnel_phase, idx))]

\* Shapes broadcast when equal or when one of them is 1; 0 stands for
\* torch's RuntimeError.
Broadcast(a, b) == IF a = b THEN a ELSE IF a = 1 THEN b ELSE IF b = 1 THEN a ELSE 0
At(n, i) == IF n = 1 THEN 1 ELSE i

\* torch.exp(1j * phi): the point of the unit circle at phase phi, named
\* by phi mod one cycle; NaN for a phase that is not finite.
CExp(phi) == IF IsFin(phi) THEN FRem(phi, TwoPi) ELSE NaN

\* zernike_volume[k] at pixel p of an (M, M) basis: piston, then x-tilt.
ZernikeBasis(k, p, M) == IF k = 0 THEN One ELSE Fin(2 * p[2] - (M - 1), 2 * M)

\* 2 * np.pi * sum_k coef_k * zernike_volume[k]   (lines 60 and 65).
ZernikePhi(c, zc, p) ==
    LET z == c.zernike_volume
    IN  FMul(TwoPi, FSumSeq([k \in 1..z.K |-> FMul(zc[k], ZernikeBasis(k - 1, p, z.M))]))

\* A returned tensor of shape (1, ch, size, size): val[channel][pixel].
Tensor(ch, size, val) == [err |-> "none", ch |-> ch, size |-> size, val |-> val]
Raise(e) == [err |-> e, ch |-> 0, size |-> 0, val |-> <<>>]

\* The height field the phase is computed from in free-form mode
\* (line 57: the height_map argument is overwritten).
PhaseHeight(hms, height_map) == [p \in DOMAIN hms |-> FSquare(hms[p])]

\* HeightMap.get_phase_profile (lines 56-62).  height_map is the optional
\* argument, a tensor over the grid or <<>> for None.
get_phase_profile(c, hms, zc, height_map) ==
    IF c.zernike_volume.none
    THEN LET h == PhaseHeight(hms, height_map)
             ch == Broadcast(c.nw, c.nr)
             phi(i, p) == FMul(FMul(wave_nos(c)[At(c.nw, i)], delta_N(c)[At(c.nr, i)]), h[p])
         IN  IF ch = 0 THEN Raise("RuntimeError")
             ELSE Tensor(ch, c.wave_res,
                         [i \in 1..ch |-> [p \in Pix(c.wave_res) |-> CExp(phi(i, p))]])
    ELSE Tensor(1, c.zernike_volume.M,
                [i \in 1..1 |-> [p \in Pix(c.zernike_volume.M) |-> CExp(ZernikePhi(c, zc, p))]])

\* HeightMap.height_from_zernike (lines 65-67).
height_from_zernike(c, zc) ==
    IF c.zernike_volume.none THEN Raise("AttributeError")
    ELSE LET h(p) ==
                 FDiv(FMul(wave_lengths(c)[1], ZernikePhi(c, zc, p)),
                      FMul(TwoPi, FAdd(refractive_idcs(c)[1], Fin(-1, 1))))
         IN  Tensor(1, c.zernike_volume.M,
                    [i \in 1..1 |-> [p \in Pix(c.zernike_volume.M) |-> h(p)]])

\* The height map build_baseline_profile computes (lines 234-239).
BaselineHeight(c) ==
    [p \in Pix(c.wave_res) |->
        phase_to_height_map(c, FRem(FresnelPhase(c, 1, p), TwoPi), 1)]

\* build_baseline_profile (lines 233-245).
build_baseline_profile(c, hms, zc) ==
    IF c.zernike_volume.none
    THEN IF IndexOK(c, 1) THEN get_phase_profile(c, hms, zc, BaselineHeight(c))
         ELSE Raise("IndexError")
    ELSE Raise("UnboundLocalError")

(***************************************************************************)
(* RGBCollimator.get_psf.                                                  *)
(***************************************************************************)
RECURSIVE FSumSet(_, _)
FSumSet(f, S) ==
    IF S = {} THEN Zero
    ELSE LET x == CHOOSE y \in S : TRUE
         IN  FAdd(f[x], FSumSet(f, S \ {x}))

\* The argument None.
None == [err |-> "None", ch |-> 0, size |-> 0, val |-> <<>>]

\* |z|**2 of a unit-circle point: 1, or NaN.
Modulus2(z) == IF IsNaN(z) THEN NaN ELSE One

\* torch.abs(self.propagator(field)) ** 2 on one channel, given the
\* intensity of the field entering the propagator.  The propagator keeps the
\* energy of the channel and does not renormalise; the energy is spread
\* evenly here (the spatial pattern of the diffraction is not modelled).  A
\* NaN anywhere in the channel reaches every output pixel.
PropagatedIntensity(N, I) ==
    LET total == FSumSet(I, Pix(N))
    IN  [p \in Pix(N) |-> FDiv(total, Fin(N * N, 1))]

\* area_downsampling(psfs, patch_size) on one channel: the mean of each
\* (N/P) x (N/P) block.
area_downsampling(N, I, P) ==
    LET f == N \div P
        Block(q) == {p \in Pix(N) : p[1] \div f = q[1] /\ p[2] \div f = q[2]}
    IN  [q \in Pix(P) |-> FDiv(FSumSet(I, Block(q)), Fin(f * f, 1))]

\* psfs.sum(): one scalar over every channel and pixel.
TensorSum(val, ch, size) ==
    FSumSeq([i \in 1..ch |-> FSumSet(val[i], Pix(size))])

\* psfs / psfs.sum()   (line 129).
Normalize(val, ch, size) ==
    LET total == TensorSum(val, ch, size)
    IN  [i \in 1..ch |-> [q \in Pix(size) |-> FDiv(val[i][q], total)]]

\* RGBCollimator.get_psf (lines 121-130).
get_psf(c, hms, zc, phase_profile) ==
    LET prof == IF phase_profile.err = "None"
                THEN get_phase_profile(c, hms, zc, <<>>) ELSE phase_profile
    IN  IF prof.err # "none" THEN prof
        ELSE LET ch == Broadcast(prof.ch, c.nw)
                 size == Broadcast(prof.size, c.wave_res)
             IN  IF ch = 0 \/ size # c.wave_res THEN Raise("RuntimeError")
                 ELSE LET aperture == buffers.aperture
                          input_field == buffers.input_field
                          field2 == [i \in 1..ch |-> [p \in Pix(size) |->
                              FMul(Fin(aperture[p], 1),
                                   FMul(Modulus2(prof.val[At(prof.ch, i)][IF prof.size = 1 THEN <<0, 0>> ELSE p]),
                                        FMul(input_field[At(c.nw, i)][p], input_field[At(c.nw, i)][p])))]]
                          psfs == [i \in 1..ch |->
                              area_downsampling(size, PropagatedIntensity(size, field2[i]), c.patch_size)]
                      IN  Tensor(ch, c.patch_size, Normalize(psfs, ch, c.patch_size))

(***************************************************************************)
(* Solver schedule and the deraining regression test.                      *)
(***************************************************************************)
MaxIterE2E == 10       \* e2e_optics.py: max_iter = 10
MaxIterDerain == 7     \* test_deraining.py: max_iter=7
RefPsnr == 3592        \* 35.92 dB, in hundredths of a dB
Tolerance == 10        \* 0.1 dB

\* log_descent(49, 7.65, max_iter, sigma): noise levels interpolated
\* logarithmically from 49 down to 7.65 (hundredths, rounded), and the
\* penalties in a fixed relation to them.
LogDescentSigmas == <<4900, 3987, 3243, 2639, 2147, 1747, 1421, 1156, 941, 765>>
log_descent(iter) ==
    [rhos |-> [t \in 1..iter |-> (23 * LogDescentSigmas[t]) \div 100],
     sigmas |-> [t \in 1..iter |-> LogDescentSigmas[t]]]

\* ckpt['rhos'] of the deraining checkpoint: one entry per iteration.
CkptRhos == { [t \in 1..MaxIterDerain |-> 10 * (MaxIterDerain + 1 - t)],
              [t \in 1..MaxIterDerain |-> 5] }

\* PSNR values the reconstruction may score, around the reference.
PsnrValues ==
    {3000, RefPsnr - Tolerance - 1, RefPsnr - Tolerance, RefPsnr - Tolerance + 1, RefPsnr,
     RefPsnr + Tolerance - 1, RefPsnr + Tolerance, 4000}

\* assert psnr(out, gt) - 35.92 < 0.1   (test_deraining.py line 33).
TestAssert(p) == p - RefPsnr < Tolerance

IdleSolver == [caller |-> "none", t |-> 0, max_iter |-> 0, rhos |-> <<>>, lams |-> <<>>,
               used |-> <<>>]
NoRet == [op |-> "none"]

\* solver.solve(x0, rhos, lams, max_iter): the call as it starts.
solve(caller, rs, ls, max_iter) ==
    [caller |-> caller, t |-> 0, max_iter |-> max_iter, rhos |-> rs, lams |-> ls,
     used |-> <<>>]

\* Whether the unrolled loop runs another iteration.
LoopContinues(sv) == sv.t < sv.max_iter

\* One iteration: the data step with rho_t and the prior step with sigma_t.
Iterate(sv) ==
    [sv EXCEPT !.t = sv.t + 1,
               !.used = Append(sv.used,
                   [t |-> sv.t, rho |-> sv.rhos[sv.t + 1],
                    lam |-> IF sv.lams = <<>> THEN <<>> ELSE sv.lams[sv.t + 1]])]

(***************************************************************************)
(* Inputs of the calls.                                                    *)
(***************************************************************************)
\* Phases handed to phase_to_height_map, in cycles.
Phases == {Fin(-3, 4), Zero, Fin(1, 4)}

\* Height maps handed to get_phase_profile: uniform fields.
HeightValues == {Zero, Fin(1, 4), Fin(2, 1)}
HeightArgs(c) == {[p \in Pix(c.wave_res) |-> h] : h \in HeightValues}

\* What an optimizer step may leave in the parameters: a checkerboard of two
\* reals v and w in height_map_sqrt, the value z in every Zernike
\* coefficient, and the schedule moved by d.
OptimizerUpdates ==
    { [v |-> Root(-1, Fin(1, 4)), w |-> Root(1, Fin(5500, 4599)), z |-> Fin(-1, 1), d |-> -800],
      [v |-> Root(0, Zero), w |-> Root(1, Fin(2, 1)), z |-> Fin(4, 3), d |-> 400] }

(***************************************************************************)
(* The program.                                                            *)
(***************************************************************************)
DefaultConfig ==
    [wave_res |-> 1, patch_size |-> 1, sensor_distance |-> DefaultSensorDistance,
     nw |-> NumChannels, nr |-> NumChannels, zernike_volume |-> NoZernike,
     initial_zernike_coefs |-> [k \in {} |-> Zero]]

Init ==
    /\ \/ /\ pc = "config"
          /\ cfg \in {c \in Configs : ValidConfig(c)}
          /\ rhos = <<>>
       \/ /\ pc = "derain"
          /\ cfg = DefaultConfig
          /\ rhos \in CkptRhos
    /\ height_map_sqrt = <<>>
    /\ zernike_coeffs = <<>>
    /\ sigmas = <<>>
    /\ gstep = 0
    /\ ret = NoRet
    /\ solver = IdleSolver
    /\ buffers = NoBuffers

\* The fields of the dataclass are plain attributes: a caller overrides one
\* of them on the free-form configuration before building the model.
IsDefaultOptics(c) ==
    /\ c.zernike_volume.none
    /\ c.sensor_distance = DefaultSensorDistance
    /\ c.nw = NumChannels /\ c.nr = NumChannels

\* config.sensor_distance = d
SetSensorDistance ==
    /\ pc = "config"
    /\ IsDefaultOptics(cfg)
    /\ \E d \in SensorDistances \ {cfg.sensor_distance} :
          cfg' = [cfg EXCEPT !.sensor_distance = d]
    /\ UNCHANGED <<pc, height_map_sqrt, zernike_coeffs, rhos, sigmas, gstep, ret, solver, buffers>>

\* config.wave_lengths = ..., config.refractive_idcs = ...
SetWaveTuples ==
    /\ pc = "config"
    /\ IsDefaultOptics(cfg)
    /\ \E s \in ShapePairs \ {<<cfg.nw, cfg.nr>>} :
          cfg' = [cfg EXCEPT !.nw = s[1], !.nr = s[2]]
    /\ UNCHANGED <<pc, height_map_sqrt, zernike_coeffs, rhos, sigmas, gstep, ret, solver, buffers>>

\* HeightMap.__init__ (lines 22-31): whether it raises.
HeightMapInitError(c) ==
    IF c.zernike_volume.none /\ ~IndexOK(c, 1) THEN "IndexError" ELSE "none"

\* HeightMap.__init__: the parameter height_map_sqrt it registers.
HeightMapInitSqrt(c) ==
    IF c.zernike_volume.none THEN fresnel_phase_init(c, 1) ELSE <<>>

\* HeightMap.__init__: the parameter list zernike_coeffs it registers.
HeightMapInitCoeffs(c) ==
    IF c.zernike_volume.none THEN <<>>
    ELSE [k \in 1..c.zernike_volume.K |->
            IF (k - 1) \in DOMAIN c.initial_zernike_coefs
            THEN c.initial_zernike_coefs[k - 1] ELSE Zero]

\* build_model: build_doe_model(config), i.e. RGBCollimator.__init__ and
\* _init_setup, then the schedule of log_descent as parameters.
BuildModel ==
    /\ pc = "config"
    /\ LET e == HeightMapInitError(cfg)
       IN  IF e # "none"
           THEN /\ pc' = "failed"
                /\ ret' = [op |-> "build_doe_model", out |-> Raise(e)]
                /\ UNCHANGED <<height_map_sqrt, zernike_coeffs, rhos, sigmas, buffers>>
           ELSE /\ pc' = "ready"
                /\ ret' = [op |-> "build_doe_model", out |-> None]
                /\ buffers' = init_setup(cfg)
                /\ height_map_sqrt' = HeightMapInitSqrt(cfg)
                /\ zernike_coeffs' = HeightMapInitCoeffs(cfg)
                /\ rhos' = log_descent(MaxIterE2E).rhos
                /\ sigmas' = log_descent(MaxIterE2E).sigmas
    /\ UNCHANGED <<cfg, gstep, solver>>

\* A call from outside returns to its caller, which holds the result in ret.
Frame ==
    /\ pc' = "called"
    /\ UNCHANGED <<cfg, height_map_sqrt, zernike_coeffs, rhos, sigmas, gstep, solver, buffers>>

\* height_map.get_phase_profile(h) and get_phase_profile().
GetPhaseProfile ==
    /\ pc = "ready"
    /\ \E h \in HeightArgs(cfg) \cup {<<>>} :
          ret' = [op |-> "get_phase_profile", height_map |-> h,
                  out |-> get_phase_profile(cfg, height_map_sqrt, zernike_coeffs, h)]
    /\ Frame

\* height_map.phase_to_height_map(phi + 2*pi*n, idx) on a one-entry phase.
PhaseToHeightMap ==
    /\ pc = "ready"
    /\ \E phi \in Phases, n \in (-MaxWraps)..MaxWraps, idx \in 0..(NumChannels - 1) :
          ret' = [op |-> "phase_to_height_map", phi |-> phi, n |-> n, idx |-> idx,
                  out |-> IF IndexOK(cfg, idx)
                          THEN [err |-> "none",
                                val |-> phase_to_height_map(cfg, FAdd(phi, FMul(TwoPi, Fin(n, 1))), idx)]
                          ELSE [err |-> "IndexError", val |-> NaN]]
    /\ Frame

\* height_map.height_from_zernike().
HeightFromZernike ==
    /\ pc = "ready"
    /\ ret' = [op |-> "height_from_zernike", out |-> height_from_zernike(cfg, zernike_coeffs)]
    /\ Frame

\* build_baseline_profile(rgb_collim_model).
BuildBaselineProfile ==
    /\ pc = "ready"
    /\ ret' = [op |-> "build_baseline_profile",
               out |-> build_baseline_profile(cfg, height_map_sqrt, zernike_coeffs)]
    /\ Frame

\* The phase_profile arguments tried: None and the baseline profile.
ProfileArgs == {None, build_baseline_profile(cfg, height_map_sqrt, zernike_coeffs)}

\* A get_psf that masks the registered input field in place.
GetPsfInPlace ==
    /\ pc = "ready"
    /\ \E a \in {x \in ProfileArgs : x.err \in {"None", "none"}} :
          ret' = [op |-> "get_psf", phase_profile |-> a,
                  out |-> get_psf(cfg, height_map_sqrt, zernike_coeffs, a)]
    /\ buffers' = [buffers EXCEPT !.input_field =
                      [i \in DOMAIN @ |-> [p \in DOMAIN @[i] |->
                          FMul(Fin(buffers.aperture[p], 1), @[i][p])]]]
    /\ pc' = "called"
    /\ UNCHANGED <<cfg, height_map_sqrt, zernike_coeffs, rhos, sigmas, gstep, solver>>

\* rgb_collim_model.get_psf(phase_profile).
GetPsf ==
    /\ pc = "ready"
    /\ \E a \in {x \in ProfileArgs : x.err \in {"None", "none"}} :
          ret' = [op |-> "get_psf", phase_profile |-> a,
                  out |-> get_psf(cfg, height_map_sqrt, zernike_coeffs, a)]
    /\ Frame

\* rgb_collim_model.forward(input_img, phase_profile): the PSF it returns
\* beside the convolved image (lines 133-135).
Forward ==
    /\ pc = "ready"
    /\ \E a \in {x \in ProfileArgs : x.err \in {"None", "none"}} :
          ret' = [op |-> "forward", phase_profile |-> a,
                  out |-> get_psf(cfg, height_map_sqrt, zernike_coeffs, a)]
    /\ Frame

\* The caller goes on to its next call.
Resume ==
    /\ pc = "called"
    /\ pc' = "ready"
    /\ ret' = NoRet
    /\ UNCHANGED <<cfg, height_map_sqrt, zernike_coeffs, rhos, sigmas, gstep, solver, buffers>>

\* step_fn's call with max_iter one short.
StepFnSolveShort(rs, sg) ==
    solve("step_fn", rs, [t \in 1..Len(sg) |-> FSqrt(Fin(sg[t], 1))], MaxIterE2E - 1)

\* solver.solve(x0=inp, rhos=rgb_collim_model.rhos,
\*              lams={reg_term: rgb_collim_model.sigmas.sqrt()}, max_iter=max_iter)
StepFnSolve(rs, sg) ==
    solve("step_fn", rs, [t \in 1..Len(sg) |-> FSqrt(Fin(sg[t], 1))], MaxIterE2E)

\* step_fn (e2e_optics.py lines 45-56) up to the call of solver.solve; an
\* exception of get_psf ends the program.
StepFn ==
    /\ pc = "ready"
    /\ LET psf == get_psf(cfg, height_map_sqrt, zernike_coeffs, None)
       IN  /\ ret' = [op |-> "step_fn", out |-> psf]
           /\ IF psf.err # "none"
              THEN /\ pc' = "crashed"
                   /\ UNCHANGED solver
              ELSE /\ pc' = "solving"
                   /\ solver' = StepFnSolve(rhos, sigmas)
    /\ UNCHANGED <<cfg, height_map_sqrt, zernike_coeffs, rhos, sigmas, gstep, buffers>>

\* test (test_deraining.py line 29): solver.solve(x0=b, rhos=rhos, max_iter=7).
DerainSolve ==
    /\ pc = "derain"
    /\ pc' = "solving"
    /\ solver' = solve("test", rhos, <<>>, MaxIterDerain)
    /\ UNCHANGED <<cfg, height_map_sqrt, zernike_coeffs, rhos, sigmas, gstep, ret, buffers>>

\* One iteration of the unrolled loop of solver.solve.
SolveIter ==
    /\ pc = "solving"
    /\ LoopContinues(solver)
    /\ solver' = Iterate(solver)
    /\ UNCHANGED <<cfg, pc, height_map_sqrt, zernike_coeffs, rhos, sigmas, gstep, ret, buffers>>

\* solver.solve returns.
SolveReturn ==
    /\ pc = "solving"
    /\ ~LoopContinues(solver)
    /\ pc' = "solved"
    /\ UNCHANGED <<cfg, height_map_sqrt, zernike_coeffs, rhos, sigmas, gstep, ret, solver, buffers>>

\* train (lines 152-158): loss.backward(); optimizer.step() on
\* rgb_collim_model.parameters().
OptimizerStep ==
    /\ pc = "solved"
    /\ solver.caller = "step_fn"
    /\ gstep < MaxSteps
    /\ \E u \in OptimizerUpdates :
          /\ height_map_sqrt' =
                IF cfg.zernike_volume.none
                THEN [p \in Pix(cfg.wave_res) |-> IF (p[1] + p[2]) % 2 = 0 THEN u.v ELSE u.w]
                ELSE height_map_sqrt
          /\ zernike_coeffs' = [k \in 1..Len(zernike_coeffs) |-> u.z]
          /\ rhos' = [t \in 1..Len(rhos) |-> rhos[t] + u.d]
          /\ sigmas' = [t \in 1..Len(sigmas) |-> sigmas[t] + u.d]
    /\ gstep' = gstep + 1
    /\ pc' = "ready"
    /\ solver' = IdleSolver
    /\ ret' = NoRet
    /\ UNCHANGED <<cfg, buffers>>

\* test (e2e_optics.py lines 84-89): step_fn returns and nothing is updated.
EvalReturn ==
    /\ pc = "solved"
    /\ solver.caller = "step_fn"
    /\ pc' = "ready"
    /\ solver' = IdleSolver
    /\ ret' = NoRet
    /\ UNCHANGED <<cfg, height_map_sqrt, zernike_coeffs, rhos, sigmas, gstep, buffers>>

\* test (test_deraining.py lines 30-33): the PSNR of out + b and the assert.
DerainAssert ==
    /\ pc = "solved"
    /\ solver.caller = "test"
    /\ \E p \in PsnrValues :
          /\ ret' = [op |-> "test", psnr |-> p, passed |-> TestAssert(p)]
          /\ pc' = IF TestAssert(p) THEN "test_passed" ELSE "test_failed"
    /\ UNCHANGED <<cfg, height_map_sqrt, zernike_coeffs, rhos, sigmas, gstep, solver, buffers>>

Next ==
    \/ SetSensorDistance
    \/ SetWaveTuples
    \/ BuildModel
    \/ GetPhaseProfile
    \/ PhaseToHeightMap
    \/ HeightFromZernike
    \/ BuildBaselineProfile
    \/ GetPsf
    \/ Forward
    \/ Resume
    \/ StepFn
    \/ DerainSolve
    \/ SolveIter
    \/ SolveReturn
    \/ OptimizerStep
    \/ EvalReturn
    \/ DerainAssert

Spec == Init /\ [][Next]_vars

(***************************************************************************)
(* Properties.                                                             *)
(***************************************************************************)
FreeForm == cfg.zernike_volume.none
Built == pc \notin {"config", "failed", "derain"} /\ solver.caller # "test"

\* exp(i * wave_nos * delta_N * h): the profile of a height map h.
ProfileOfHeight(c, h) ==
    [i \in 1..Broadcast(c.nw, c.nr) |-> [p \in DOMAIN h |->
        CExp(FMul(FMul(wave_nos(c)[At(c.nw, i)], delta_N(c)[At(c.nr, i)]), h[p]))]]

\* C1: in free-form mode get_phase_profile(height_map=h) returns the phase
\* profile of the supplied height map h, whatever the internal parameter
\* height_map_sqrt holds.
C1_SuppliedHeightMapDecidesProfile ==
    (ret.op = "get_phase_profile" /\ FreeForm /\ ret.height_map # <<>> /\ ret.out.err = "none")
        => ret.out.val = ProfileOfHeight(cfg, ret.height_map)

\* C2: for a free-form model in any reachable parameter state,
\* build_baseline_profile returns exp(i*phi) with phi the ideal Fresnel-lens
\* phase of the green wavelength (index 1) modulo 2*pi.
C2_BaselineRoundTrip ==
    (ret.op = "build_baseline_profile" /\ FreeForm /\ ret.out.err = "none")
        => \A p \in Pix(cfg.wave_res) : ret.out.val[2][p] = CExp(FresnelPhase(cfg, 1, p))

\* (phi mod 2*pi) / ((2*pi / wavelength[idx]) * (refractive_index[idx] - 1))
WrappedHeight(c, phi, idx) ==
    FDiv(FRem(phi, TwoPi),
         FMul(FDiv(TwoPi, wave_lengths(c)[idx + 1]),
              FAdd(refractive_idcs(c)[idx + 1], Fin(-1, 1))))

\* C3: phase_to_height_map(phi + 2*pi*n, idx) equals
\* phase_to_height_map(phi, idx) for every integer n, and equals
\* (phi mod 2*pi) / ((2*pi/wavelength[idx]) * (refractive_index[idx] - 1)).
C3_PhaseWrapInvariance ==
    (ret.op = "phase_to_height_map" /\ ret.out.err = "none")
        => /\ ret.out.val = phase_to_height_map(cfg, ret.phi, ret.idx)
           /\ ret.out.val = WrappedHeight(cfg, ret.phi, ret.idx)

\* C3 witness: the call returned for a negative phase shifted by a nonzero
\* number of cycles, with a nonzero height.
C3_Witness ==
    /\ ret.op = "phase_to_height_map"
    /\ ret.out.err = "none"
    /\ ret.n # 0
    /\ FLess(ret.phi, Zero)
    /\ FLess(Zero, ret.out.val)

\* C4: in free-form mode the height field the phase profile is computed
\* from is >= 0 at every pixel in every state after construction.
C4_HeightNonNegative ==
    (Built /\ FreeForm)
        => \A p \in Pix(cfg.wave_res) : FGeqZero(PhaseHeight(height_map_sqrt, <<>>)[p])

\* 0 <= h < wavelength[idx] / (refractive_index[idx] - 1)
InOneWave(c, h, idx) ==
    /\ FGeqZero(h)
    /\ FLess(h, FDiv(wave_lengths(c)[idx + 1], FAdd(refractive_idcs(c)[idx + 1], Fin(-1, 1))))

\* C5: every height returned by phase_to_height_map, the Fresnel-lens
\* initialisation, build_baseline_profile and height_from_zernike lies in
\* [0, wavelength / (refractive_index - 1)) for the wavelength used.
C5_HeightsWithinOneWave ==
    /\ (ret.op = "phase_to_height_map" /\ ret.out.err = "none")
          => InOneWave(cfg, ret.out.val, ret.idx)
    /\ (Built /\ FreeForm /\ gstep = 0)
          => \A p \in Pix(cfg.wave_res) : InOneWave(cfg, FSquare(height_map_sqrt[p]), 1)
    /\ (ret.op = "build_baseline_profile" /\ ret.out.err \in {"none", "RuntimeError"})
          => \A p \in Pix(cfg.wave_res) : InOneWave(cfg, BaselineHeight(cfg)[p], 1)
    /\ (Built /\ ~FreeForm)
          => LET h == height_from_zernike(cfg, zernike_coeffs)
             IN  \A p \in Pix(h.size) : InOneWave(cfg, h.val[1][p], 0)

\* C6: get_psf returns a non-negative tensor whose sum over all channels and
\* pixels together is 1, for any configuration and phase profile.
C6_PsfSumsToOne ==
    (ret.op = "get_psf" /\ ret.out.err = "none")
        => /\ \A i \in 1..ret.out.ch : \A q \in Pix(ret.out.size) : FGeqZero(ret.out.val[i][q])
           /\ TensorSum(ret.out.val, ret.out.ch, ret.out.size) = One

\* The shapes of the wavelength tuple, the refractive-index tuple and the
\* Zernike basis do not match.
Mismatched(c) ==
    \/ c.nw # c.nr
    \/ ~c.zernike_volume.none /\ c.zernike_volume.M # c.wave_res

\* C7: a configuration with mismatched shapes raises during construction;
\* no instance is returned.
C7_MismatchFailsAtConstruction == Mismatched(cfg) => ~Built

\* C8: a sensor distance that is zero or negative raises at construction,
\* and the height-map parameter never holds an infinite or NaN value.
C8_DegenerateDistanceRejected ==
    /\ cfg.sensor_distance <= 0 => ~Built
    /\ (Built /\ FreeForm) => \A p \in Pix(cfg.wave_res) : IsFin(FSquare(height_map_sqrt[p]))

\* The iterations a finished call made: t = 0..N-1 in order, iteration t
\* with the t-th entries of the schedule rs (and ls where given).
RanExactly(sv, N, rs, ls) ==
    /\ Len(sv.used) = N
    /\ \A i \in 1..N :
          /\ sv.used[i].t = i - 1
          /\ sv.used[i].rho = rs[i]
          /\ sv.used[i].lam = IF ls = <<>> THEN <<>> ELSE ls[i]

C10_TestAcceptsOnlyWithinTolerance ==
    ret.op = "test" => (ret.passed <=> Abs(ret.psnr - RefPsnr) < Tolerance)

\* A schedule of n positive entries.
PositiveSchedule(sq, n) == Len(sq) = n /\ \A t \in 1..Len(sq) : sq[t] > 0

\* C11: in every reachable state of the end-to-end example, rhos and sigmas
\* both have max_iter entries, all positive, after log_descent and after any
\* number of optimizer steps, and the noise levels sigmas.sqrt() handed to
\* the solver are defined.
C11_SchedulePositive ==
    /\ Built => PositiveSchedule(rhos, MaxIterE2E) /\ PositiveSchedule(sigmas, MaxIterE2E)
    /\ (pc \in {"solving", "solved"} /\ solver.caller = "step_fn")
          => \A t \in 1..Len(solver.lams) : IsFin(FSquare(solver.lams[t]))

\* What get_psf returns now for the argument of the last get_psf or forward.
PsfAgain == get_psf(cfg, height_map_sqrt, zernike_coeffs, ret.phase_profile)

\* C12: a call of get_psf or forward leaves the configuration, the grid, the
\* aperture, the input field and the height-map parameters as they were, and
\* what it returned is what get_psf returns for the same argument after the
\* call: a repeated call gives the same PSF, and forward gives get_psf's.
C12_PsfCallsReadOnly ==
    /\ [][(pc = "ready" /\ ret'.op \in {"get_psf", "forward"})
             => UNCHANGED <<cfg, buffers, height_map_sqrt, zernike_coeffs>>]_vars
    /\ [](ret.op \in {"get_psf", "forward"} => ret.out = PsfAgain)

\* C12 witness: after an optimizer step, forward was called with a phase
\* profile on a grid whose aperture lets light through, and returned a PSF.
C12_Witness ==
    /\ ret.op = "forward"
    /\ gstep > 0
    /\ ret.phase_profile.err = "none"
    /\ ret.out.err = "none"
    /\ \E p \in DOMAIN buffers.aperture : buffers.aperture[p] = 1
    /\ TensorSum(ret.out.val, ret.out.ch, ret.out.size) = One

====
